---------------------------- MODULE Spec2Model ----------------------------
(***************************************************************************)
(* Client roster dashboard: the roster state container (App), the CSV      *)
(* import dialog (ImportModal), the add-client form (AddClientModal) and   *)
(* the table view (ClientTable).                                           *)
(*                                                                         *)
(* A JavaScript string is modelled as a sequence of one-character strings  *)
(* so that trim, toLowerCase, replace(/\s+/g,''), parseInt, join and split *)
(* are computed character by character.  Dates are computed under the      *)
(* UTC time zone and the en-US locale.                                     *)
(***************************************************************************)
EXTENDS Integers, Sequences, FiniteSets, TLC

(* ------------------------------ bounds ------------------------------- *)
\* number of identifiers crypto.randomUUID() hands out in one run
MaxIds == 2
\* last tick of the wall clock
MaxNow == 1
\* Papa.parse calls that may be in flight at once
MaxPending == 2

(* --------------------------- JS primitives --------------------------- *)
UpperCaseLetters == <<"A","B","C","D","E","F","G","H","I","J","K","L","M","N","O","P","Q","R","S","T","U","V","W","X","Y","Z">>
LowerCaseLetters == <<"a","b","c","d","e","f","g","h","i","j","k","l","m","n","o","p","q","r","s","t","u","v","w","x","y","z">>
Digits == <<"0","1","2","3","4","5","6","7","8","9">>

\* the characters the regular expression class \s and String.prototype.trim remove
IsSpace(c) == c \in {" ", "\t", "\n", "\r"}
DigitValues == [c \in {Digits[k] : k \in 1..10} |-> (CHOOSE k \in 1..10 : Digits[k] = c) - 1]
IsDigit(c) == c \in DOMAIN DigitValues
DigitValue(c) == DigitValues[c]

\* the letters toLowerCase and toUpperCase change
UpperToLower ==
  [c \in {UpperCaseLetters[k] : k \in 1..26} |->
     LowerCaseLetters[CHOOSE k \in 1..26 : UpperCaseLetters[k] = c]]
LowerToUpper ==
  [c \in {LowerCaseLetters[k] : k \in 1..26} |->
     UpperCaseLetters[CHOOSE k \in 1..26 : LowerCaseLetters[k] = c]]
toLowerCaseChar(c) == IF c \in DOMAIN UpperToLower THEN UpperToLower[c] ELSE c
toUpperCaseChar(c) == IF c \in DOMAIN LowerToUpper THEN LowerToUpper[c] ELSE c
toLowerCase(s) == [i \in 1..Len(s) |-> toLowerCaseChar(s[i])]
toUpperCase(s) == [i \in 1..Len(s) |-> toUpperCaseChar(s[i])]

\* s.replace(/\s+/g, '')
stripWhitespace(s) == SelectSeq(s, LAMBDA c : ~IsSpace(c))

RECURSIVE trimStart(_)
trimStart(s) == IF s # << >> /\ IsSpace(Head(s)) THEN trimStart(Tail(s)) ELSE s
RECURSIVE trimEnd(_)
trimEnd(s) ==
  IF s # << >> /\ IsSpace(s[Len(s)]) THEN trimEnd(SubSeq(s, 1, Len(s) - 1)) ELSE s
trim(s) == trimEnd(trimStart(s))

\* Array.prototype.includes
includes(arr, x) == \E i \in 1..Len(arr) : arr[i] = x

\* Array.prototype.join over an array of strings
RECURSIVE join(_, _)
join(arr, sep) ==
  IF arr = << >> THEN << >>
  ELSE IF Len(arr) = 1 THEN arr[1]
  ELSE arr[1] \o sep \o join(Tail(arr), sep)

\* String.prototype.split on a one-character separator
RECURSIVE indexOf(_, _, _)
indexOf(s, c, i) ==
  IF i > Len(s) THEN 0 ELSE IF s[i] = c THEN i ELSE indexOf(s, c, i + 1)
RECURSIVE split(_, _)
split(s, sep) ==
  LET i == indexOf(s, sep, 1)
  IN IF i = 0 THEN <<s>>
     ELSE <<SubSeq(s, 1, i - 1)>> \o split(SubSeq(s, i + 1, Len(s)), sep)

\* the decimal digits of a natural number
RECURSIVE natToString(_)
natToString(n) ==
  IF n < 10 THEN <<Digits[n + 1]>> ELSE natToString(n \div 10) \o <<Digits[(n % 10) + 1]>>
\* String(n) for an integer
numberToString(n) == IF n < 0 THEN <<"-">> \o natToString(0 - n) ELSE natToString(n)
\* n.toString().padStart(w, "0")
RECURSIVE padStart(_, _)
padStart(s, w) == IF Len(s) >= w THEN s ELSE padStart(<<"0">> \o s, w)

\* the value of a run of decimal digits
RECURSIVE digitsValue(_)
digitsValue(s) ==
  IF s = << >> THEN 0 ELSE 10 * digitsValue(SubSeq(s, 1, Len(s) - 1)) + DigitValue(s[Len(s)])
\* the longest prefix of s made of decimal digits
RECURSIVE digitPrefix(_)
digitPrefix(s) ==
  IF s # << >> /\ IsDigit(Head(s)) THEN <<Head(s)>> \o digitPrefix(Tail(s)) ELSE << >>

\* parseInt(s) without a radix: leading white space and one sign are skipped,
\* the longest run of decimal digits is read and what follows is ignored;
\* NaN (nan = TRUE) when no digit is read.  (Hexadecimal 0x prefixes are outside the
\* alphabet of the inputs.)
parseInt(s) ==
  LET t == trimStart(s)
      neg == t # << >> /\ Head(t) = "-"
      u == IF t # << >> /\ Head(t) \in {"-", "+"} THEN Tail(t) ELSE t
      d == digitPrefix(u)
  IN IF d = << >> THEN [nan |-> TRUE, value |-> 0]
     ELSE [nan |-> FALSE, value |-> IF neg THEN 0 - digitsValue(d) ELSE digitsValue(d)]
\* isNaN of a parseInt result
isNaN(x) == x.nan

(* ------------------------------- dates ------------------------------- *)
\* a Date value: valid = FALSE is the Invalid Date, whose getTime() is NaN
InvalidDate == [valid |-> FALSE, y |-> 0, m |-> 0, d |-> 0]
AllDigits(s) == \A i \in 1..Len(s) : IsDigit(s[i])
MakeDate(y, m, d) ==
  IF m \in 1..12 /\ d \in 1..31 THEN [valid |-> TRUE, y |-> y, m |-> m, d |-> d]
  ELSE InvalidDate
TimeSuffix == <<"T","0","0",":","0","0",":","0","0",".","0","0","0","Z">>
\* new Date(text) for the forms the dialog documents, YYYY-MM-DD and
\* MM/DD/YYYY, and for the timestamps toISOString writes; any other text of
\* the input sets is not a date.  Days past the end of a month are not among
\* the inputs.
newDate(s) ==
  LET iso == /\ Len(s) >= 10 /\ s[5] = "-" /\ s[8] = "-"
             /\ AllDigits(SubSeq(s, 1, 4)) /\ AllDigits(SubSeq(s, 6, 7))
             /\ AllDigits(SubSeq(s, 9, 10))
             /\ (Len(s) = 10 \/ SubSeq(s, 11, Len(s)) = TimeSuffix)
      us == /\ Len(s) = 10 /\ s[3] = "/" /\ s[6] = "/"
            /\ AllDigits(SubSeq(s, 1, 2)) /\ AllDigits(SubSeq(s, 4, 5))
            /\ AllDigits(SubSeq(s, 7, 10))
  IN IF iso THEN MakeDate(digitsValue(SubSeq(s, 1, 4)), digitsValue(SubSeq(s, 6, 7)),
                          digitsValue(SubSeq(s, 9, 10)))
     ELSE IF us THEN MakeDate(digitsValue(SubSeq(s, 7, 10)), digitsValue(SubSeq(s, 1, 2)),
                              digitsValue(SubSeq(s, 4, 5)))
     ELSE InvalidDate
\* Date.prototype.toISOString
toISOString(date) ==
  padStart(natToString(date.y), 4) \o <<"-">> \o padStart(natToString(date.m), 2)
    \o <<"-">> \o padStart(natToString(date.d), 2) \o TimeSuffix
\* Date.prototype.toLocaleDateString
toLocaleDateString(date) ==
  IF date.valid
    THEN natToString(date.m) \o <<"/">> \o natToString(date.d) \o <<"/">> \o natToString(date.y)
    ELSE <<"I","n","v","a","l","i","d"," ","D","a","t","e">>
\* new Date() at clock tick t
currentDate(t) == [valid |-> TRUE, y |-> 2025, m |-> 1, d |-> 1 + t]
\* crypto.randomUUID(): the n-th identifier handed out
randomUUID(n) == <<"i","d","-">> \o natToString(n)

(* ------------------------------ types.ts ----------------------------- *)
CLIENT_STATUSES ==
  << <<"N","e","w"," ","A","u","t","h","o","r","i","z","a","t","i","o","n">>,
     <<"C","u","r","r","e","n","t"," ","A","u","t","h","o","r","i","z","a","t","i","o","n">>,
     <<"C","u","r","r","e","n","t"," ","A","u","t","h","o","r","i","z","a","t","i","o","n"," ","(","N","e","w"," ","L","B","S",")">>,
     <<"N","e","w","l","y"," ","A","s","s","i","g","n","e","d">>,
     <<"C","l","i","e","n","t"," ","H","o","s","p","i","t","a","l","i","z","e","d">>,
     <<"F","r","e","q","u","e","n","t"," ","C","a","r","e","g","i","v","e","r"," ","C","a","n","c","e","l","l","a","t","i","o","n","s">> >>

(* --------------------------- ImportModal.tsx ------------------------- *)
EXPECTED_HEADERS ==
  [ name |->
      << <<"n","a","m","e">>,
     <<"c","l","i","e","n","t"," ","n","a","m","e">>,
     <<"c","l","i","e","n","t","n","a","m","e">>,
     <<"c","l","i","e","n","t">> >>,
    clinician |->
      << <<"c","l","i","n","i","c","i","a","n">>,
     <<"a","s","s","i","g","n","e","d"," ","c","l","i","n","i","c","i","a","n">>,
     <<"a","s","s","i","g","n","e","d","c","l","i","n","i","c","i","a","n">> >>,
    assignedDate |->
      << <<"a","s","s","i","g","n","e","d"," ","d","a","t","e">>,
     <<"a","s","s","i","g","n","e","d","d","a","t","e">>,
     <<"d","a","t","e">>,
     <<"a","s","s","i","g","n","m","e","n","t"," ","d","a","t","e">> >>,
    unitsUsed |->
      << <<"u","n","i","t","s">>,
     <<"u","n","i","t","s"," ","u","s","e","d">>,
     <<"u","n","i","t","s","u","s","e","d">> >>,
    status |->
      << <<"s","t","a","t","u","s">>,
     <<"c","l","i","e","n","t"," ","s","t","a","t","u","s">> >> ]

\* A CSVRow is the sequence of its <<key, value>> pairs in column order.
ObjectKeys(row) == [i \in 1..Len(row) |-> row[i][1]]
\* row[key]
RowGet(row, key) == row[CHOOSE i \in 1..Len(row) : row[i][1] = key][2]
\* the result of Array.prototype.find: found = FALSE is undefined
Undefined == [found |-> FALSE, key |-> << >>]

normalizeKey(key) == stripWhitespace(toLowerCase(key))
\* Array.prototype.find: the first element of keys that test accepts
RECURSIVE find(_, _, _)
find(keys, headerLower, i) ==
  IF i > Len(keys) THEN Undefined
  ELSE IF includes(headerLower, normalizeKey(keys[i])) THEN [found |-> TRUE, key |-> keys[i]]
  ELSE find(keys, headerLower, i + 1)
findMatchingHeader(headers, row) ==
  find(ObjectKeys(row), [i \in 1..Len(headers) |-> toLowerCase(headers[i])], 1)
\* !header : undefined and the empty string are falsy
Falsy(h) == ~h.found \/ h.key = << >>

MissingColumnsMessage == "Missing or invalid column headers. Required columns: Name, Assigned Clinician, Assigned Date, Units Used, Status"
MissingFieldsMessage == "Missing required fields"
InvalidUnitsMessage == "Invalid units (must be between 0-960)"
InvalidStatusMessage == "Invalid status. Must be one of: New Authorization, Current Authorization, Current Authorization (New LBS), Newly Assigned, Client Hospitalized, Frequent Caregiver Cancellations"
InvalidDateMessage == "Invalid date format. Use YYYY-MM-DD or MM/DD/YYYY"
\* the line of a row numbered from 0
RowError_zeroBased(index, message) == [row |-> index, message |-> message]
\* `Row ${index + 1}: ${message}` ; index is the 0-based position in results.data
RowError(index, message) == [row |-> index + 1, message |-> message]
\* `Error parsing CSV: ${error.message}` carries no row number
ParseErrorLine == [row |-> 0, message |-> "Error parsing CSV"]

TOTAL_ANNUAL_UNITS == 960

\* isNaN(units) || units < 0 || units > 960, without the upper limit
invalidUnits_noUpperLimit(units) == isNaN(units) \/ units.value < 0
\* isNaN(units) || units < 0 || units > 960
invalidUnits(units) == isNaN(units) \/ units.value < 0 \/ units.value > TOTAL_ANNUAL_UNITS

\* the body of results.data.forEach for one row: the client pushed to
\* parsedClients (ok) or the line pushed to errors
checkRow(row, index, uuid, t) ==
  LET nameHeader == findMatchingHeader(EXPECTED_HEADERS.name, row)
      clinicianHeader == findMatchingHeader(EXPECTED_HEADERS.clinician, row)
      dateHeader == findMatchingHeader(EXPECTED_HEADERS.assignedDate, row)
      unitsHeader == findMatchingHeader(EXPECTED_HEADERS.unitsUsed, row)
      statusHeader == findMatchingHeader(EXPECTED_HEADERS.status, row)
  IN IF Falsy(nameHeader) \/ Falsy(clinicianHeader) \/ Falsy(dateHeader)
          \/ Falsy(unitsHeader) \/ Falsy(statusHeader)
       THEN [ok |-> FALSE, error |-> RowError(index, MissingColumnsMessage)]
     ELSE
       LET name == trim(RowGet(row, nameHeader.key))
           clinician == trim(RowGet(row, clinicianHeader.key))
           assignedDate == trim(RowGet(row, dateHeader.key))
           unitsUsed == trim(RowGet(row, unitsHeader.key))
           status == trim(RowGet(row, statusHeader.key))
           units == parseInt(unitsUsed)
           date == newDate(assignedDate)
       IN IF name = << >> \/ clinician = << >> \/ assignedDate = << >>
               \/ unitsUsed = << >> \/ status = << >>
            THEN [ok |-> FALSE, error |-> RowError(index, MissingFieldsMessage)]
          ELSE IF invalidUnits(units)
            THEN [ok |-> FALSE, error |-> RowError(index, InvalidUnitsMessage)]
          ELSE IF ~includes(CLIENT_STATUSES, status)
            THEN [ok |-> FALSE, error |-> RowError(index, InvalidStatusMessage)]
          ELSE IF ~date.valid
            THEN [ok |-> FALSE, error |-> RowError(index, InvalidDateMessage)]
          ELSE [ok |-> TRUE,
                client |-> [ id |-> uuid,
                             name |-> name,
                             clinician |-> clinician,
                             assignedDate |-> toISOString(date),
                             unitsUsed |-> units.value,
                             status |-> status,
                             lastUpdated |-> toISOString(currentDate(t)) ]]

\* results.data.forEach(...) from row index + 1 on: parsedClients, errors and
\* the number of identifiers drawn so far
RECURSIVE forEachRow(_, _, _, _)
forEachRow(data, index, acc, t) ==
  IF index >= Len(data) THEN acc
  ELSE LET r == checkRow(data[index + 1], index, randomUUID(acc.ids + 1), t)
       IN IF r.ok
            THEN forEachRow(data, index + 1,
                            [acc EXCEPT !.parsedClients = Append(@, r.client), !.ids = @ + 1], t)
            ELSE forEachRow(data, index + 1,
                            [acc EXCEPT !.errors = Append(@, r.error)], t)
\* the complete callback up to the final branch
parseResults(data, ids, t) ==
  forEachRow(data, 0, [parsedClients |-> << >>, errors |-> << >>, ids |-> ids], t)
\* the final branch staging the rows that passed beside the error report
stage_validRows(results) ==
  [error |-> results.errors, preview |-> results.parsedClients]
\* the final branch: what setError and setPreview are given
stage(results) ==
  IF Len(results.errors) > 0
    THEN [error |-> results.errors, preview |-> << >>]
    ELSE [preview |-> results.parsedClients, error |-> << >>]

(* ------------------------------ App state ---------------------------- *)
VARIABLES
  clients,            \* App: the roster, an array of Client records
  storage,            \* localStorage item 'clients'
  isImportModalOpen,  \* App
  file,               \* ImportModal: the selected File or null
  preview,            \* ImportModal: the staged clients
  error,              \* ImportModal: the lines of the error text, << >> for ''
  pending,            \* Papa.parse calls whose callback has not run yet
  search,             \* ClientTable
  sortField,          \* ClientTable
  sortDirection,      \* ClientTable
  csvContent,         \* the text of the last clients.csv download
  now,                \* the wall clock read by new Date()
  uuids,              \* identifiers crypto.randomUUID() has handed out
  lastOp              \* the handler that ran last and its arguments

vars == <<clients, storage, isImportModalOpen, file, preview,
          error, pending, search, sortField, sortDirection, csvContent, now, uuids, lastOp>>
importVars == <<file, preview, error, pending>>
tableVars == <<search, sortField, sortDirection>>

(* ------------------------- JSON and localStorage --------------------- *)
\* JSON.stringify of a string: quotes, backslashes and line breaks are escaped
RECURSIVE jsonEscape(_)
jsonEscape(s) ==
  IF s = << >> THEN << >>
  ELSE LET c == Head(s)
       IN (IF c = "\n" THEN <<"\\", "n">>
           ELSE IF c = "\t" THEN <<"\\", "t">>
           ELSE IF c = "\"" THEN <<"\\", "\"">>
           ELSE IF c = "\\" THEN <<"\\", "\\">>
           ELSE <<c>>) \o jsonEscape(Tail(s))
\* JSON.parse of the inside of a string literal
RECURSIVE jsonUnescape(_)
jsonUnescape(s) ==
  IF s = << >> THEN << >>
  ELSE IF Head(s) = "\\" /\ Len(s) >= 2
    THEN (IF s[2] = "n" THEN <<"\n">> ELSE IF s[2] = "t" THEN <<"\t">> ELSE <<s[2]>>)
           \o jsonUnescape(SubSeq(s, 3, Len(s)))
  ELSE <<Head(s)>> \o jsonUnescape(Tail(s))
\* the characters a JSON string literal escapes
NeedsEscape(s) == \E i \in 1..Len(s) : s[i] \in {"\n", "\t", "\"", "\\"}
jsonString(s) == [type |-> "string", text |-> IF NeedsEscape(s) THEN jsonEscape(s) ELSE s]
jsonNumber(n) == [type |-> "number", text |-> numberToString(n)]
parseJsonString(v) ==
  IF \E i \in 1..Len(v.text) : v.text[i] = "\\" THEN jsonUnescape(v.text) ELSE v.text
parseJsonNumber(v) ==
  IF Head(v.text) = "-" THEN 0 - digitsValue(Tail(v.text)) ELSE digitsValue(v.text)

\* JSON.stringify(clients): one object per client, its members as <<key, value>>
stringifyClient(c) ==
  << <<"id", jsonString(c.id)>>,
     <<"name", jsonString(c.name)>>,
     <<"clinician", jsonString(c.clinician)>>,
     <<"assignedDate", jsonString(c.assignedDate)>>,
     <<"unitsUsed", jsonNumber(c.unitsUsed)>>,
     <<"status", jsonString(c.status)>>,
     <<"lastUpdated", jsonString(c.lastUpdated)>> >>
JSONstringify(cs) == [i \in 1..Len(cs) |-> stringifyClient(cs[i])]
Member(obj, key) == obj[CHOOSE i \in 1..Len(obj) : obj[i][1] = key][2]
parseClient(obj) ==
  [ id |-> parseJsonString(Member(obj, "id")),
    name |-> parseJsonString(Member(obj, "name")),
    clinician |-> parseJsonString(Member(obj, "clinician")),
    assignedDate |-> parseJsonString(Member(obj, "assignedDate")),
    unitsUsed |-> parseJsonNumber(Member(obj, "unitsUsed")),
    status |-> parseJsonString(Member(obj, "status")),
    lastUpdated |-> parseJsonString(Member(obj, "lastUpdated")) ]
JSONparse(text) == [i \in 1..Len(text) |-> parseClient(text[i])]

\* localStorage.getItem('clients') when nothing is stored
NoItem == [present |-> FALSE, value |-> << >>]
\* useState initialiser: saved ? JSON.parse(saved) : []
initialClients(saved) == IF saved.present THEN JSONparse(saved.value) ELSE << >>
\* useEffect on [clients]: localStorage.setItem('clients', JSON.stringify(clients))
setItem(cs) == [present |-> TRUE, value |-> JSONstringify(cs)]
\* setClients(cs) without the effect
setClients_noEffect(cs) == clients' = cs /\ UNCHANGED storage
\* setClients(cs) followed by the effect it triggers
setClients(cs) == clients' = cs /\ storage' = setItem(cs)
\* a render in which the roster keeps its identity runs no effect
keepClients == UNCHANGED <<clients, storage>>

(* ---------------------------- App handlers --------------------------- *)
\* the map that leaves a record alone when it has the status already
statusChange_skipUnchanged(cs, id, status, t) ==
  [i \in 1..Len(cs) |->
     IF cs[i].id = id /\ cs[i].status # status
       THEN [cs[i] EXCEPT !.status = status, !.lastUpdated = toISOString(currentDate(t))]
       ELSE cs[i]]
statusChange(cs, id, status, t) ==
  [i \in 1..Len(cs) |->
     IF cs[i].id = id
       THEN [cs[i] EXCEPT !.status = status, !.lastUpdated = toISOString(currentDate(t))]
       ELSE cs[i]]
\* the map that refreshes lastUpdated of every record, matching or not
unitsChange_touchAll(cs, id, units, t) ==
  [i \in 1..Len(cs) |->
     IF cs[i].id = id
       THEN [cs[i] EXCEPT !.unitsUsed = units, !.lastUpdated = toISOString(currentDate(t))]
       ELSE [cs[i] EXCEPT !.lastUpdated = toISOString(currentDate(t))]]
unitsChange(cs, id, units, t) ==
  [i \in 1..Len(cs) |->
     IF cs[i].id = id
       THEN [cs[i] EXCEPT !.unitsUsed = units, !.lastUpdated = toISOString(currentDate(t))]
       ELSE cs[i]]
newClient(data, uuid, t) ==
  [ id |-> uuid,
    lastUpdated |-> toISOString(currentDate(t)),
    name |-> data.name,
    clinician |-> data.clinician,
    assignedDate |-> data.assignedDate,
    unitsUsed |-> data.unitsUsed,
    status |-> data.status ]
addClient(cs, data, uuid, t) == Append(cs, newClient(data, uuid, t))
\* the spread that loses the last imported client
importClients_dropLast(cs, importedClients) ==
  cs \o SubSeq(importedClients, 1, Len(importedClients) - 1)
importClients(cs, importedClients) == cs \o importedClients
deleteClient(cs, id) == SelectSeq(cs, LAMBDA c : c.id # id)

idsOf(cs) == {cs[i].id : i \in 1..Len(cs)}
\* the handler that ran and whether the id it was given was in the roster
Op(name, known) == [op |-> name, known |-> known]

handleStatusChange(id, status) ==
  /\ setClients(statusChange(clients, id, status, now))
  /\ lastOp' = Op("handleStatusChange", id \in idsOf(clients))
  /\ UNCHANGED <<isImportModalOpen, importVars, tableVars, csvContent, now, uuids>>

handleUnitsChange(id, units) ==
  /\ setClients(unitsChange(clients, id, units, now))
  /\ lastOp' = Op("handleUnitsChange", id \in idsOf(clients))
  /\ UNCHANGED <<isImportModalOpen, importVars, tableVars, csvContent, now, uuids>>

handleAddClient(data) ==
  /\ uuids < MaxIds
  /\ setClients(addClient(clients, data, randomUUID(uuids + 1), now))
  /\ uuids' = uuids + 1
  /\ lastOp' = Op("handleAddClient", TRUE)
  /\ UNCHANGED <<isImportModalOpen, importVars, tableVars, csvContent, now>>

handleImportClients(importedClients) ==
  /\ setClients(importClients(clients, importedClients))
  /\ lastOp' = Op("handleImportClients", TRUE)

handleDeleteClient(id) ==
  /\ setClients(deleteClient(clients, id))
  /\ lastOp' = Op("handleDeleteClient", id \in idsOf(clients))
  /\ UNCHANGED <<isImportModalOpen, importVars, tableVars, csvContent, now, uuids>>

(* -------------------------- AddClientModal.tsx ----------------------- *)
\* new Date().toISOString().split('T')[0]
today(t) == split(toISOString(currentDate(t)), "T")[1]
\* Math.max(0, Math.min(960, parseInt(e.target.value) || 0))
Min(a, b) == IF a < b THEN a ELSE b
Max(a, b) == IF a > b THEN a ELSE b
clampUnits(value) ==
  LET n == parseInt(value)
  IN Max(0, Min(960, IF isNaN(n) THEN 0 ELSE n.value))
\* formData when the form is submitted with the name, clinician and units
\* typed into it, the date it opened with and the status picked
formData(name, clinician, units, status, t) ==
  [ name |-> name,
    clinician |-> clinician,
    assignedDate |-> today(t),
    unitsUsed |-> clampUnits(units),
    status |-> status ]
\* onSubmit(formData); the required inputs keep the browser from submitting
\* an empty name or clinician
handleSubmit(name, clinician, units, status) ==
  /\ name # << >> /\ clinician # << >>
  /\ handleAddClient(formData(name, clinician, units, status, now))

(* ---------------------------- ImportModal.tsx ------------------------ *)
NoFile == [name |-> "", data |-> << >>]

setIsImportModalOpen(open) ==
  /\ isImportModalOpen' = open
  /\ lastOp' = Op("setIsImportModalOpen", TRUE)
  /\ keepClients
  /\ UNCHANGED <<importVars, tableVars, csvContent, now, uuids>>

\* the file input's onChange; Papa.parse(file, ...) starts reading the file
handleFileChange(selectedFile) ==
  /\ isImportModalOpen
  /\ Len(pending) < MaxPending
  /\ file' = selectedFile
  /\ error' = << >>
  /\ pending' = Append(pending, selectedFile)
  /\ lastOp' = Op("handleFileChange", TRUE)
  /\ keepClients
  /\ UNCHANGED <<isImportModalOpen, preview, tableVars, csvContent, now, uuids>>

RemoveAt(s, k) == SubSeq(s, 1, k - 1) \o SubSeq(s, k + 1, Len(s))

\* Papa.parse's complete callback for the k-th call in flight
complete(k) ==
  /\ k \in 1..Len(pending)
  /\ LET results == parseResults(pending[k].data, uuids, now)
     IN /\ results.ids <= MaxIds
        /\ uuids' = results.ids
        /\ error' = stage(results).error
        /\ preview' = stage(results).preview
  /\ pending' = RemoveAt(pending, k)
  /\ lastOp' = Op("complete", TRUE)
  /\ keepClients
  /\ UNCHANGED <<isImportModalOpen, file, tableVars, csvContent, now>>

\* the error callback without its setPreview([])
parseError_keepsPreview(k) ==
  /\ k \in 1..Len(pending)
  /\ error' = <<ParseErrorLine>>
  /\ pending' = RemoveAt(pending, k)
  /\ lastOp' = Op("error", TRUE)
  /\ keepClients
  /\ UNCHANGED <<isImportModalOpen, file, preview, tableVars, csvContent, now, uuids>>
\* Papa.parse's error callback for the k-th call in flight
parseError(k) ==
  /\ k \in 1..Len(pending)
  /\ error' = <<ParseErrorLine>>
  /\ preview' = << >>
  /\ pending' = RemoveAt(pending, k)
  /\ lastOp' = Op("error", TRUE)
  /\ keepClients
  /\ UNCHANGED <<isImportModalOpen, file, tableVars, csvContent, now, uuids>>

\* the Import button's onClick leaving the staged preview in place
handleImport_keepsPreview ==
  /\ isImportModalOpen
  /\ lastOp' = Op("handleImport", TRUE)
  /\ IF Len(preview) > 0
       THEN /\ setClients(importClients(clients, preview))
            /\ isImportModalOpen' = FALSE
            /\ file' = NoFile
            /\ error' = << >>
            /\ UNCHANGED preview
       ELSE /\ keepClients
            /\ UNCHANGED <<isImportModalOpen, file, preview, error>>
  /\ UNCHANGED <<pending, tableVars, csvContent, now, uuids>>
\* the Import button's onClick
handleImport ==
  /\ isImportModalOpen
  /\ lastOp' = Op("handleImport", TRUE)
  /\ IF Len(preview) > 0
       THEN /\ setClients(importClients(clients, preview))
            /\ isImportModalOpen' = FALSE
            /\ file' = NoFile
            /\ preview' = << >>
            /\ error' = << >>
       ELSE /\ keepClients
            /\ UNCHANGED <<isImportModalOpen, file, preview, error>>
  /\ UNCHANGED <<pending, tableVars, csvContent, now, uuids>>

(* ---------------------------- ClientTable.tsx ------------------------ *)
\* String.prototype.includes
stringIncludes(s, sub) ==
  \E i \in 1..(Len(s) - Len(sub) + 1) : SubSeq(s, i, i + Len(sub) - 1) = sub
filteredClients(cs, q) ==
  SelectSeq(cs, LAMBDA c : stringIncludes(toLowerCase(c.name), toLowerCase(q)))
\* the ids of the rows the table renders
visibleIds == idsOf(filteredClients(clients, search))

setSearch(value) ==
  /\ search' = value
  /\ lastOp' = Op("setSearch", TRUE)
  /\ keepClients
  /\ UNCHANGED <<isImportModalOpen, importVars, sortField, sortDirection, csvContent, now, uuids>>

handleSort(field) ==
  /\ IF field = sortField
       THEN /\ sortDirection' = (IF sortDirection = "asc" THEN "desc" ELSE "asc")
            /\ UNCHANGED sortField
       ELSE sortField' = field /\ sortDirection' = "asc"
  /\ lastOp' = Op("handleSort", TRUE)
  /\ keepClients
  /\ UNCHANGED <<isImportModalOpen, importVars, search, csvContent, now, uuids>>

\* the units input of a rendered row
onChangeUnits(id, value) ==
  /\ id \in visibleIds
  /\ handleUnitsChange(id, clampUnits(value))
\* the status select of a rendered row
onChangeStatus_row(id, status) ==
  /\ id \in visibleIds
  /\ handleStatusChange(id, status)
\* the delete button of a rendered row
onDelete(id) ==
  /\ id \in visibleIds
  /\ handleDeleteClient(id)

(* ------------------------------ App: export ------------------------- *)
\* the rows of clients.csv and their text
HeaderRow == << <<"N","a","m","e">>, <<"A","s","s","i","g","n","e","d"," ","C","l","i","n","i","c","i","a","n">>, <<"A","s","s","i","g","n","e","d"," ","D","a","t","e">>,
               <<"U","n","i","t","s"," ","U","s","e","d">>, <<"S","t","a","t","u","s">>, <<"L","a","s","t"," ","U","p","d","a","t","e","d">> >>
\* the row with the units and status columns exchanged
exportRow_unitsAfterStatus(client) ==
  << client.name,
     client.clinician,
     toLocaleDateString(newDate(client.assignedDate)),
     client.status,
     numberToString(client.unitsUsed),
     toLocaleDateString(newDate(client.lastUpdated)) >>
exportRow(client) ==
  << client.name,
     client.clinician,
     toLocaleDateString(newDate(client.assignedDate)),
     numberToString(client.unitsUsed),
     client.status,
     toLocaleDateString(newDate(client.lastUpdated)) >>
exportRows(cs) == <<HeaderRow>> \o [i \in 1..Len(cs) |-> exportRow(cs[i])]
\* the text of the rows the table shows under the current search
exportText_visible(cs) ==
  LET rows == exportRows(filteredClients(cs, search))
  IN join([i \in 1..Len(rows) |-> join(rows[i], <<",">>)], <<"\n">>)
exportText(cs) ==
  LET rows == exportRows(cs)
  IN join([i \in 1..Len(rows) |-> join(rows[i], <<",">>)], <<"\n">>)
NoDownload == [done |-> FALSE, text |-> << >>]
handleExport ==
  /\ csvContent' = [done |-> TRUE, text |-> exportText(clients)]
  /\ lastOp' = Op("handleExport", TRUE)
  /\ keepClients
  /\ UNCHANGED <<isImportModalOpen, importVars, tableVars, now, uuids>>

(* ------------------------------ environment -------------------------- *)
\* the wall clock advances
Tick ==
  /\ now < MaxNow
  /\ now' = now + 1
  /\ UNCHANGED <<clients, storage, isImportModalOpen, importVars, tableVars, csvContent,
                 uuids, lastOp>>

\* the page is loaded again: every component is constructed anew and the
\* roster is read from the item `saved` found in localStorage
Restart(saved) ==
  /\ setClients(initialClients(saved))
  /\ isImportModalOpen' = FALSE
  /\ file' = NoFile
  /\ preview' = << >>
  /\ error' = << >>
  /\ pending' = << >>
  /\ search' = << >>
  /\ sortField' = "name"
  /\ sortDirection' = "asc"
  /\ lastOp' = Op("restart", saved.present)
  /\ UNCHANGED <<csvContent, now, uuids>>

Init ==
  /\ clients = initialClients(NoItem)
  /\ storage = setItem(clients)
  /\ isImportModalOpen = FALSE
  /\ file = NoFile
  /\ preview = << >>
  /\ error = << >>
  /\ pending = << >>
  /\ search = << >>
  /\ sortField = "name"
  /\ sortDirection = "asc"
  /\ csvContent = NoDownload
  /\ now = 0
  /\ uuids = 0
  /\ lastOp = Op("init", TRUE)

(* ------------------------------- inputs ------------------------------ *)
\* longest file, in data rows, among the files of ImportFiles built from BaseRows
MaxRows == 2

TemplateHeaders ==
  << <<"N","a","m","e">>, <<"A","s","s","i","g","n","e","d"," ","C","l","i","n","i","c","i","a","n">>, <<"A","s","s","i","g","n","e","d"," ","D","a","t","e">>,
     <<"U","n","i","t","s"," ","U","s","e","d">>, <<"S","t","a","t","u","s">> >>
\* the CSVRow Papa.parse builds from a header line and a line of cells; a line
\* with fewer cells than the header has no key for the missing ones
Row(headers, cells) ==
  [i \in 1..Min(Len(headers), Len(cells)) |-> <<headers[i], cells[i]>>]

\* cells of data rows: name, clinician, date, units, status
NameInputs ==
  { <<"J","a","n","e">>,
    <<" ","J","o"," ">>,
    << >>,
    <<"D","o","e",","," ","J">>,
    <<"A","\n","B">> }
DateInputs ==
  { <<"2","0","2","4","-","0","1","-","0","5">>,
    <<"s","o","o","n">> }
UnitsInputs ==
  { <<"1","0","0">>,
    <<"0","0","7">>,
    <<"1","2",".","5">>,
    <<"1","0","0","0">>,
    <<"-","1">>,
    <<"a","b","c">>,
    << >> }
StatusInputs ==
  { <<"N","e","w","l","y"," ","A","s","s","i","g","n","e","d">>,
    <<"n","e","w"," ","a","u","t","h","o","r","i","z","a","t","i","o","n">> }
ClinicianInput == <<"D","r","."," ","X">>
\* every combination of the inputs above
ProductRows ==
  { <<n, ClinicianInput, d, u, s>> :
      n \in NameInputs, d \in DateInputs, u \in UnitsInputs, s \in StatusInputs }
\* the rows the longer files are made of
BaseRows ==
  { << <<"J","a","n","e">>, <<"D","r","."," ","X">>, <<"2","0","2","4","-","0","1","-","0","5">>, <<"1","0","0">>, <<"N","e","w","l","y"," ","A","s","s","i","g","n","e","d">> >>,
    << <<"B","o","b">>, <<"D","r","."," ","Y">>, <<"0","3","/","2","0","/","2","0","2","4">>, <<"9","6","0">>, <<"N","e","w"," ","A","u","t","h","o","r","i","z","a","t","i","o","n">> >>,
    << <<"A","n","n">>, <<"D","r","."," ","X">>, <<"2","0","2","4","-","0","1","-","0","5">>, <<"1","0","0","0">>, <<"N","e","w","l","y"," ","A","s","s","i","g","n","e","d">> >>,
    << << >>, <<"D","r","."," ","X">>, <<"2","0","2","4","-","0","1","-","0","5">>, <<"1","0","0","0">>, <<"N","e","w","l","y"," ","A","s","s","i","g","n","e","d">> >>,
    << <<"C","y">>, <<"D","r","."," ","X">>, <<"s","o","o","n">>, <<"5">>, <<"n","e","w","l","y"," ","a","s","s","i","g","n","e","d">> >>,
    << <<"E","d">>, <<"D","r","."," ","X">>, <<"2","0","2","4","-","0","1","-","0","5">>, <<"5">> >> }

RECURSIVE SeqsOfLen(_, _)
SeqsOfLen(S, n) ==
  IF n = 0 THEN {<< >>}
  ELSE {Append(s, x) : s \in SeqsOfLen(S, n - 1), x \in S}
SeqsUpTo(S, n) == UNION {SeqsOfLen(S, k) : k \in 1..n}
DataOf(headers, rows) == [i \in 1..Len(rows) |-> Row(headers, rows[i])]


\* header lines: the template's with one column renamed to an alias of its
\* field (as listed, in upper case, or without its spaces), and the template's
\* with one column left out
Fields == <<"name", "clinician", "assignedDate", "unitsUsed", "status">>
Spellings(alias) == {alias, toUpperCase(alias), stripWhitespace(alias)}
AliasesOf(f) == EXPECTED_HEADERS[Fields[f]]
AliasSpellings(f) == UNION {Spellings(AliasesOf(f)[a]) : a \in 1..Len(AliasesOf(f))}
AliasHeaderLines ==
  UNION {{[TemplateHeaders EXCEPT ![f] = h] : h \in AliasSpellings(f)} : f \in 1..5}
ValidCells == << <<"J","a","n","e">>, <<"D","r","."," ","X">>, <<"2","0","2","4","-","0","1","-","0","5">>, <<"1","0","0">>, <<"N","e","w","l","y"," ","A","s","s","i","g","n","e","d">> >>
File(name, data) == [name |-> name, data |-> data]
AliasFiles ==
  {File("aliases.csv", DataOf(h, <<ValidCells>>)) : h \in AliasHeaderLines}
MissingColumnFiles ==
  {File("missing.csv", DataOf(RemoveAt(TemplateHeaders, f), <<RemoveAt(ValidCells, f)>>)) :
     f \in 1..5}
ProductFiles == {File("one.csv", DataOf(TemplateHeaders, <<r>>)) : r \in ProductRows}
BaseFiles ==
  {File("rows.csv", DataOf(TemplateHeaders, rs)) : rs \in SeqsUpTo(BaseRows, MaxRows)}
ImportFiles == AliasFiles \cup MissingColumnFiles \cup ProductFiles \cup BaseFiles

\* a file of one valid row
GoodFile == File("good.csv", DataOf(TemplateHeaders, <<ValidCells>>))
\* the files selected, the form entries and the values typed in the views
AppFiles ==
  { File("good.csv", DataOf(TemplateHeaders, <<ValidCells>>)),
    File("bad.csv", DataOf(TemplateHeaders, <<ValidCells, << <<"A","n","n">>, <<"D","r","."," ","X">>, <<"2","0","2","4","-","0","1","-","0","5">>, <<"1","0","0","0">>, <<"N","e","w","l","y"," ","A","s","s","i","g","n","e","d">> >>>>)) }
TypedName == <<"Z","o","e">>
TypedUnits == { <<"1","0","0","0">>, <<"-","5">>, <<"4","2">> }
TypedSearch == { << >>, <<"z">> }

\* the arguments of direct calls of the store's operations
\* an id no client was ever given
UnknownId == <<"n","o","-","s","u","c","h","-","i","d">>
StoreIds == {randomUUID(n) : n \in 1..MaxIds} \cup {UnknownId}
StoreUnits == {1000}
StoreStatuses == {CLIENT_STATUSES[5]}
StoreData ==
  [ name |-> <<"A","l"," ","\"","J","r","\"">>,
    clinician |-> ClinicianInput,
    assignedDate |-> <<"2","0","2","4","-","0","3","-","2","0">>,
    unitsUsed |-> 0,
    status |-> CLIENT_STATUSES[1] ]

(* --------------------------- specifications -------------------------- *)
\* The import dialog and the roster, driven through the views.
Next ==
  \/ setIsImportModalOpen(TRUE)
  \/ setIsImportModalOpen(FALSE)
  \/ \E selectedFile \in AppFiles : handleFileChange(selectedFile)
  \/ \E k \in 1..MaxPending : complete(k)
  \/ \E k \in 1..MaxPending : parseError(k)
  \/ handleImport
  \/ handleSubmit(TypedName, ClinicianInput, <<"1","0","0","0">>, CLIENT_STATUSES[1])
  \/ \E id \in StoreIds : onDelete(id)
Spec == Init /\ [][Next]_vars

\* The table view over a roster filled from the add form.
NextTable ==
  \/ handleSubmit(TypedName, ClinicianInput, <<"1","0","0","0">>, CLIENT_STATUSES[1])
  \/ \E value \in TypedSearch : setSearch(value)
  \/ handleSort("name")
  \/ handleSort("unitsUsed")
  \/ \E id \in StoreIds, value \in TypedUnits : onChangeUnits(id, value)
  \/ \E id \in StoreIds, status \in StoreStatuses : onChangeStatus_row(id, status)
  \/ \E id \in StoreIds : onDelete(id)
SpecTable == Init /\ [][NextTable]_vars

\* The roster fed from the add form and from imports of a valid file, and
\* edited through the table.
NextRoster ==
  \/ setIsImportModalOpen(TRUE)
  \/ setIsImportModalOpen(FALSE)
  \/ handleFileChange(GoodFile)
  \/ \E k \in 1..MaxPending : complete(k)
  \/ handleImport
  \/ handleSubmit(TypedName, ClinicianInput, <<"1","0","0","0">>, CLIENT_STATUSES[1])
  \/ \E id \in StoreIds : onChangeUnits(id, <<"1","0","0","0">>)
  \/ \E id \in StoreIds : onChangeStatus_row(id, CLIENT_STATUSES[1])
  \/ \E id \in StoreIds : onDelete(id)
SpecRoster == Init /\ [][NextRoster]_vars

\* The roster store called directly, with any argument.
bulkAdd ==
  /\ uuids + 2 <= MaxIds
  /\ handleImportClients(<<newClient(StoreData, randomUUID(uuids + 1), now),
                           newClient(StoreData, randomUUID(uuids + 2), now)>>)
  /\ uuids' = uuids + 2
  /\ UNCHANGED <<isImportModalOpen, importVars, tableVars, csvContent, now>>
NextStore ==
  \/ handleAddClient(StoreData)
  \/ bulkAdd
  \/ \E id \in StoreIds, status \in StoreStatuses : handleStatusChange(id, status)
  \/ \E id \in StoreIds, units \in StoreUnits : handleUnitsChange(id, units)
  \/ \E id \in StoreIds : handleDeleteClient(id)
  \/ Tick
  \/ Restart(storage)
  \/ Restart(NoItem)
SpecStore == Init /\ [][NextStore]_vars

\* The import engine and the export on every file of ImportFiles: the dialog
\* is open and the file has just been selected.
InitImport ==
  /\ clients = << >>
  /\ storage = setItem(clients)
  /\ isImportModalOpen = TRUE
  /\ \E selectedFile \in ImportFiles :
       file = selectedFile /\ pending = <<selectedFile>>
  /\ preview = << >>
  /\ error = << >>
  /\ search = << >>
  /\ sortField = "name"
  /\ sortDirection = "asc"
  /\ csvContent = NoDownload
  /\ now = 0
  /\ uuids = 0
  /\ lastOp = Op("handleFileChange", TRUE)
NextImport ==
  \/ complete(1)
  \/ handleImport
  \/ handleExport
  \/ \E value \in TypedSearch : setSearch(value)
  \/ handleSort("name")
SpecImport == InitImport /\ [][NextImport]_vars

(* ------------------------------- claims ------------------------------ *)
\* a data row passes every check of the import
RowPasses(row) == checkRow(row, 0, randomUUID(1), 0).ok
FailingRows(data) == {i \in 1..Len(data) : ~RowPasses(data[i])}
Parsed == lastOp.op = "complete"

\* C1: import is all-or-nothing.  Once the parse of a file has completed, if
\* any of its data rows fails a check the staged preview is empty and nothing of
\* the file has reached the roster; a non-empty preview means every row passed
\* and holds one client per row.
C1_AllOrNothing ==
  /\ FailingRows(file.data) # {} => preview = << >> /\ clients = << >>
  /\ Parsed /\ preview # << >> =>
        FailingRows(file.data) = {} /\ Len(preview) = Len(file.data)
\* a file whose first row passes and whose second row fails has been parsed
C1_Witness ==
  /\ Parsed /\ Len(file.data) = 2
  /\ RowPasses(file.data[1]) /\ ~RowPasses(file.data[2])
  /\ preview = << >> /\ error # << >>

\* C2: the error report is complete and ordered.  After a parse the report
\* holds exactly one line per failing data row and none for a passing row, in
\* ascending row order, each line numbered with the 1-based position of its row
\* among the data rows.
C2_ErrorReportComplete ==
  Parsed =>
    /\ Len(error) = Cardinality(FailingRows(file.data))
    /\ \A j \in 1..Len(error) : error[j].row \in FailingRows(file.data)
    /\ \A j, k \in 1..Len(error) : j < k => error[j].row < error[k].row
\* both rows of a two-row file fail and both are reported, the first bad row first
C2_Witness ==
  /\ Parsed /\ Len(file.data) = 2 /\ FailingRows(file.data) = {1, 2}
  /\ Len(error) = 2 /\ error[1].row = 1 /\ error[2].row = 2

\* the cell of a row under the column resolved for a field, trimmed
Resolved(row, f) == findMatchingHeader(AliasesOf(f), row)
ColumnsResolve(row) == \A f \in 1..5 : ~Falsy(Resolved(row, f))
Cell(row, f) == trim(RowGet(row, Resolved(row, f).key))
FieldsPresent(row) == \A f \in 1..5 : Cell(row, f) # << >>
\* the units cell read as a number is below 0 or above 960
UnitsOutOfRange(row) ==
  LET units == parseInt(Cell(row, 4))
  IN ~isNaN(units) /\ (units.value < 0 \/ units.value > 960)
Reported(i, message) ==
  \E j \in 1..Len(error) : error[j] = [row |-> i, message |-> message]

\* C5 as stated: every data row whose units are outside [0, 960] is rejected
\* with the invalid-units message, whatever its other fields hold.
C5_AnyRowWithBadUnitsReportsInvalidUnits ==
  Parsed =>
    \A i \in 1..Len(file.data) :
      ~Falsy(Resolved(file.data[i], 4)) /\ UnitsOutOfRange(file.data[i])
        => Reported(i, InvalidUnitsMessage)
\* C5 amended: a data row whose five columns resolve and whose five values are
\* non-empty after trimming, and whose units read below 0 or above 960, is
\* rejected with the invalid-units message whatever its status and date hold.
C5_PresentRowWithBadUnitsReportsInvalidUnits ==
  Parsed =>
    \A i \in 1..Len(file.data) :
      ColumnsResolve(file.data[i]) /\ FieldsPresent(file.data[i])
          /\ UnitsOutOfRange(file.data[i])
        => Reported(i, InvalidUnitsMessage) /\ preview = << >>
\* a row with units above 960, a status outside the list and a text that is no
\* date has been reported for its units
C5_Witness ==
  /\ Parsed /\ Len(file.data) = 1
  /\ ColumnsResolve(file.data[1]) /\ FieldsPresent(file.data[1])
  /\ UnitsOutOfRange(file.data[1])
  /\ ~includes(CLIENT_STATUSES, Cell(file.data[1], 5))
  /\ ~newDate(Cell(file.data[1], 3)).valid
  /\ error = <<[row |-> 1, message |-> InvalidUnitsMessage]>>

\* C6 as stated: a file whose header line uses, for one field, any listed
\* alias of that field (as listed, in upper case or without its spaces) and the
\* template's headers for the others resolves all five fields, and its parse
\* reports no missing column.
C6_EveryAliasResolves ==
  Parsed /\ file.name = "aliases.csv" =>
    /\ \A i \in 1..Len(file.data) : ColumnsResolve(file.data[i])
    /\ \A j \in 1..Len(error) : error[j].message # MissingColumnsMessage

\* C3: imported rows reach the roster only on confirmation.  Opening or closing
\* the dialog, selecting a file and either callback of a parse leave the roster
\* and its stored copy as they were; the confirm step appends the whole staged
\* preview to the roster.
C3_RosterChangesOnlyOnConfirm ==
  [][ /\ ( \/ setIsImportModalOpen(TRUE)
           \/ setIsImportModalOpen(FALSE)
           \/ \E selectedFile \in AppFiles : handleFileChange(selectedFile)
           \/ lastOp'.op = "complete" /\ \E k \in 1..MaxPending : complete(k)
           \/ \E k \in 1..MaxPending : parseError(k) )
          => clients' = clients /\ storage' = storage
      /\ lastOp'.op = "handleImport" /\ handleImport => clients' = clients \o preview ]_vars
\* a confirmation has appended a staged client to a roster that held one already
C3_Witness ==
  /\ lastOp.op = "handleImport" /\ ~isImportModalOpen
  /\ Len(clients) = 2 /\ preview = << >>

\* C4 as stated: every client's units are within [0, 960] in every state the
\* store's operations reach, whatever integer the units update is given.
C4_UnitsWithinRange ==
  \A i \in 1..Len(clients) : clients[i].unitsUsed \in 0..960

\* C7: an update or a removal naming an id that is not in the roster leaves
\* the roster and its stored copy exactly as they were: the same records in
\* the same order, lastUpdated included.
C7_UnknownIdIsNoOp ==
  [][ \A id \in StoreIds :
        /\ id \notin idsOf(clients)
        /\ ~lastOp'.known
        /\ ( \/ \E status \in StoreStatuses : handleStatusChange(id, status)
             \/ \E units \in StoreUnits : handleUnitsChange(id, units)
             \/ handleDeleteClient(id) )
        => clients' = clients /\ storage' = storage ]_vars
\* an operation naming an unknown id has run on a roster of two clients, after
\* the clock moved on from their creation
C7_Witness ==
  /\ lastOp.op \in {"handleStatusChange", "handleUnitsChange", "handleDeleteClient"}
  /\ ~lastOp.known
  /\ Len(clients) = 2
  /\ \A i \in 1..2 : clients[i].lastUpdated # toISOString(currentDate(now))

\* C8: the stored item mirrors the roster.  In every state the item under the
\* key is present and parsing it gives back the roster, record by record and
\* field by field; a start that finds no item begins with the empty roster.
C8_StorageMirrorsRoster ==
  /\ storage.present
  /\ storage = setItem(clients)
  /\ initialClients(storage) = clients
  /\ lastOp.op = "restart" /\ ~lastOp.known => clients = << >>
\* the page was loaded again from an item holding two records, one of them
\* updated, whose names need escaping
C8_Witness ==
  /\ lastOp.op = "restart" /\ lastOp.known
  /\ Len(clients) = 2
  /\ NeedsEscape(clients[1].name)
  /\ clients[1].unitsUsed # clients[2].unitsUsed

\* the lines of a text and the columns of a line, as a reader of the file sees them
Lines(text) == split(text, "\n")
Columns(line) == split(line, ",")
HeaderLine ==
  <<"N","a","m","e",",","A","s","s","i","g","n","e","d"," ","C","l","i","n","i","c","i","a","n",",","A","s","s","i","g","n","e","d"," ","D","a","t","e",",","U","n","i","t","s"," ","U","s","e","d",",","S","t","a","t","u","s",",","L","a","s","t"," ","U","p","d","a","t","e","d">>
Count(s, c) == Cardinality({i \in 1..Len(s) : s[i] = c})
RECURSIVE Sum(_)
Sum(s) == IF s = << >> THEN 0 ELSE Head(s) + Sum(Tail(s))
\* the line breaks inside the fields export copies verbatim
LineBreaksIn(cs) ==
  Sum([i \in 1..Len(cs) |-> Count(cs[i].name, "\n") + Count(cs[i].clinician, "\n")])
\* the comma-joined fields of one client, in the order of the header
ClientLine(c) ==
  c.name \o <<",">> \o c.clinician \o <<",">>
    \o toLocaleDateString(newDate(c.assignedDate)) \o <<",">>
    \o numberToString(c.unitsUsed) \o <<",">> \o c.status \o <<",">>
    \o toLocaleDateString(newDate(c.lastUpdated))

\* C9 as stated: the export of a roster of N clients has exactly N + 1 lines.
C9_ExactlyOneLinePerClient ==
  lastOp.op = "handleExport" => Len(Lines(csvContent.text)) = Len(clients) + 1
\* C9 amended: the export of a roster of N clients is the header line followed
\* by the comma-joined fields of each client in roster order, whatever the
\* table's search and sort, joined by line breaks: N + 1 lines, and one more for
\* every line break inside a client's name or clinician; the header line alone
\* for the empty roster.  The export leaves the roster and its stored copy unchanged.
C9_ExportRowsInRosterOrder ==
  [][ lastOp'.op = "handleExport" /\ handleExport =>
        /\ clients' = clients /\ storage' = storage
        /\ csvContent'.done
        /\ csvContent'.text =
             join(<<HeaderLine>> \o [i \in 1..Len(clients) |-> ClientLine(clients[i])],
                  <<"\n">>)
        /\ Len(Lines(csvContent'.text)) = Len(clients) + 1 + LineBreaksIn(clients)
        /\ Lines(csvContent'.text)[1] = HeaderLine
        /\ clients = << >> => csvContent'.text = HeaderLine ]_vars
\* a roster of two clients was exported while the search box hid both of them
\* and the table was sorted in descending order
C9_Witness ==
  /\ lastOp.op = "handleExport" /\ csvContent.done
  /\ Len(clients) = 2
  /\ filteredClients(clients, search) = << >> /\ sortDirection = "desc"
  /\ Len(Lines(csvContent.text)) = 3

\* the cells of a data row as the file holds them
RawCell(row, f) == RowGet(row, Resolved(row, f).key)
\* a cell that trimming leaves alone and that holds no comma and no line break
PlainText(s) == trim(s) = s /\ Count(s, ",") = 0 /\ Count(s, "\n") = 0
\* a units cell written as the decimal digits of the integer it is read as
PlainInteger(s) == ~isNaN(parseInt(s)) /\ numberToString(parseInt(s).value) = s
PlainRow(row) ==
  /\ PlainText(RawCell(row, 1)) /\ PlainText(RawCell(row, 2)) /\ PlainText(RawCell(row, 5))
  /\ PlainInteger(RawCell(row, 4))
\* the name, clinician, units and status columns of the export's line for row i
\* hold what the cells of the row held
ColumnsEqualCells(lines, data, i) ==
  /\ Len(lines) > i
  /\ LET cols == Columns(lines[i + 1])
     IN /\ Len(cols) = 6
        /\ cols[1] = RawCell(data[i], 1)
        /\ cols[2] = RawCell(data[i], 2)
        /\ cols[4] = RawCell(data[i], 4)
        /\ cols[5] = RawCell(data[i], 5)
\* the confirm step of a file whose rows all passed, into an empty roster
ConfirmsWholeFile ==
  /\ clients = << >> /\ preview # << >>
  /\ Len(preview) = Len(file.data)
  /\ lastOp'.op = "handleImport" /\ handleImport

\* C10 as stated: for every file whose rows are all valid, confirming the import
\* into an empty roster and exporting gives, for each row in order, a line whose
\* Name, Assigned Clinician, Units Used and Status columns hold exactly the
\* values of the input row.
C10_RoundTripExact ==
  [][ ConfirmsWholeFile =>
        LET lines == Lines(exportText(clients'))
        IN \A i \in 1..Len(file.data) : ColumnsEqualCells(lines, file.data, i)
    ]_vars
\* C10 amended: for every file whose rows are all valid, confirming the import
\* into an empty roster and exporting gives one row per input row, in order,
\* whose name, clinician and status fields are the input values trimmed and
\* whose units field is the decimal form of the integer read from the input;
\* when no name, clinician or status of the file has surrounding white space, a
\* comma or a line break and every units cell is a plain decimal integer, the
\* four columns of each exported line hold exactly the input values.
C10_RoundTripTrimmed ==
  [][ ConfirmsWholeFile =>
        LET rows == exportRows(clients')
            lines == Lines(exportText(clients'))
        IN /\ Len(rows) = Len(file.data) + 1
           /\ \A i \in 1..Len(file.data) :
                LET fields == rows[i + 1]
                IN /\ fields[1] = trim(RawCell(file.data[i], 1))
                   /\ fields[2] = trim(RawCell(file.data[i], 2))
                   /\ fields[4] = numberToString(parseInt(trim(RawCell(file.data[i], 4))).value)
                   /\ fields[5] = trim(RawCell(file.data[i], 5))
           /\ (\A i \in 1..Len(file.data) : PlainRow(file.data[i])) =>
                \A i \in 1..Len(file.data) : ColumnsEqualCells(lines, file.data, i)
    ]_vars
\* a file of two plain rows was imported into the empty roster and exported
C10_Witness ==
  /\ lastOp.op = "handleExport" /\ csvContent.done
  /\ Len(clients) = 2 /\ file = NoFile
  /\ clients[1].name # clients[2].name
  /\ \A i \in 1..2 : PlainText(clients[i].name) /\ PlainText(clients[i].clinician)
  /\ csvContent.text = exportText(clients)

\* C11: client ids are unique.  In every state no two records of the roster
\* share an id, no two staged clients share an id, and no staged client has the
\* id of a roster record, so that confirming never appends a record a second time.
C11_IdsUnique ==
  /\ \A i, j \in 1..Len(clients) : i # j => clients[i].id # clients[j].id
  /\ \A i, j \in 1..Len(preview) : i # j => preview[i].id # preview[j].id
  /\ \A i \in 1..Len(preview) : preview[i].id \notin idsOf(clients)
\* the same file was imported twice: the roster holds two records alike in
\* every field of the file, under different ids
C11_Witness ==
  /\ lastOp.op = "handleImport" /\ ~isImportModalOpen
  /\ Len(clients) = 2
  /\ clients[1].name = clients[2].name
  /\ clients[1].unitsUsed = clients[2].unitsUsed
  /\ clients[1].id # clients[2].id

\* a units cell written as an integer: decimal digits after an optional sign
IntegerText(s) ==
  /\ s # << >>
  /\ LET digits == IF s[1] \in {"-", "+"} THEN Tail(s) ELSE s
     IN digits # << >> /\ AllDigits(digits)
IntegerInRange(s) == IntegerText(s) /\ ~invalidUnits(parseInt(s))
\* a units cell whose leading integer part, as parseInt reads it, is in range
ReadsInRange(s) == ~invalidUnits(parseInt(s))
\* the message of the first of the four checks a row fails, "" when it passes all
FirstFailure(row, UnitsOk(_)) ==
  IF ~FieldsPresent(row) THEN MissingFieldsMessage
  ELSE IF ~UnitsOk(Cell(row, 4)) THEN InvalidUnitsMessage
  ELSE IF ~includes(CLIENT_STATUSES, Cell(row, 5)) THEN InvalidStatusMessage
  ELSE IF ~newDate(Cell(row, 3)).valid THEN InvalidDateMessage
  ELSE ""
ErrorsOfRow(i) == {j \in 1..Len(error) : error[j].row = i}
\* row i is reported once with the message, or not at all when the message is ""
RowOutcomeIs(i, message) ==
  IF message = "" THEN ErrorsOfRow(i) = {}
  ELSE /\ Cardinality(ErrorsOfRow(i)) = 1
       /\ \A j \in ErrorsOfRow(i) : error[j].message = message

\* C12 as stated: after a parse, every row whose five columns resolve is
\* reported with the message of the first check it fails among (1) the five
\* values present after trimming, (2) units an integer in [0, 960], (3) status
\* one of the six literals, (4) a valid date, and with nothing else; a row that
\* passes the four checks is not reported, and a file whose rows all pass
\* stages exactly one client per row.
C12_FirstFailingCheckReported ==
  Parsed =>
    /\ \A i \in 1..Len(file.data) :
         ColumnsResolve(file.data[i]) =>
           RowOutcomeIs(i, FirstFailure(file.data[i], IntegerInRange))
    /\ (\A i \in 1..Len(file.data) :
          ColumnsResolve(file.data[i]) /\ FirstFailure(file.data[i], IntegerInRange) = "")
         => Len(preview) = Len(file.data)
\* C12 with check (2) taken as the code reads the cell: the same order of the
\* four checks, with the units cell judged by its leading integer part.
C12_FirstFailingReadReported ==
  Parsed =>
    /\ \A i \in 1..Len(file.data) :
         ColumnsResolve(file.data[i]) =>
           RowOutcomeIs(i, FirstFailure(file.data[i], ReadsInRange))
    /\ (\A i \in 1..Len(file.data) :
          ColumnsResolve(file.data[i]) /\ FirstFailure(file.data[i], ReadsInRange) = "")
         => Len(preview) = Len(file.data)

\* the fields of a record that no update writes
SameIdentity(a, b) ==
  /\ a.id = b.id /\ a.name = b.name /\ a.clinician = b.clinician
  /\ a.assignedDate = b.assignedDate
\* every record but the one with the id is as it was, in the same place
OthersUnchanged(id) ==
  /\ Len(clients') = Len(clients)
  /\ \A i \in 1..Len(clients) : clients[i].id # id => clients'[i] = clients[i]
\* C13: an update of the status or of the units of a client in the roster
\* writes the new value and the current time into the record with that id,
\* also when the value is the one the record held, and leaves its id, name,
\* clinician, assigned date and other updatable field, every other record and
\* the length and order of the roster unchanged.
C13_UpdateTouchesOnlyTarget ==
  [][ \A id \in idsOf(clients), status \in StoreStatuses, units \in StoreUnits :
        /\ lastOp'.known /\ lastOp'.op = "handleStatusChange"
            /\ handleStatusChange(id, status)
           => /\ OthersUnchanged(id)
              /\ \A i \in 1..Len(clients) : clients[i].id = id =>
                   /\ SameIdentity(clients'[i], clients[i])
                   /\ clients'[i].unitsUsed = clients[i].unitsUsed
                   /\ clients'[i].status = status
                   /\ clients'[i].lastUpdated = toISOString(currentDate(now))
        /\ lastOp'.known /\ lastOp'.op = "handleUnitsChange"
            /\ handleUnitsChange(id, units)
           => /\ OthersUnchanged(id)
              /\ \A i \in 1..Len(clients) : clients[i].id = id =>
                   /\ SameIdentity(clients'[i], clients[i])
                   /\ clients'[i].status = clients[i].status
                   /\ clients'[i].unitsUsed = units
                   /\ clients'[i].lastUpdated = toISOString(currentDate(now))
    ]_vars
\* the status of the first of two clients was updated after the clock moved
\* on: it carries the new time and the second client the time of its creation
C13_Witness ==
  /\ lastOp.op = "handleStatusChange" /\ lastOp.known
  /\ Len(clients) = 2 /\ now > 0
  /\ clients[1].status \in StoreStatuses
  /\ clients[1].lastUpdated = toISOString(currentDate(now))
  /\ clients[2].lastUpdated = toISOString(currentDate(0))
  /\ clients[2].status = StoreData.status

\* the preview and the error report are what a parse of the data gives: the
\* failing rows reported and nothing staged, or one client per row, named as
\* the rows are
ResultOf(data) ==
  IF FailingRows(data) # {}
    THEN /\ preview = << >>
         /\ {error[j].row : j \in 1..Len(error)} = FailingRows(data)
    ELSE /\ error = << >>
         /\ Len(preview) = Len(data)
         /\ \A i \in 1..Len(data) : preview[i].name = Cell(data[i], 1)
\* C14 as stated: once no parse is in flight and the last callback to run was
\* a completion, the preview and the error report are the result of parsing
\* the file the dialog displays, the one selected last.
C14_PreviewOfDisplayedFile ==
  pending = << >> /\ file # NoFile /\ lastOp.op = "complete" => ResultOf(file.data)

\* C15: the staged preview and the error report exclude each other.  In every
\* state the preview is empty or the error report is empty, and the confirm
\* step taken with an empty preview leaves the roster, its stored copy, the
\* preview, the error report, the selected file and the open dialog as they were.
C15_PreviewExcludesError ==
  /\ [](preview = << >> \/ error = << >>)
  /\ [][ preview = << >> /\ lastOp'.op = "handleImport" /\ handleImport =>
           UNCHANGED <<clients, storage, preview, error, file, isImportModalOpen>> ]_vars
\* the confirm step has run on the report of a failed file: the dialog is
\* still open on the file, with its errors and nothing staged
C15_Witness ==
  /\ lastOp.op = "handleImport" /\ isImportModalOpen
  /\ file # NoFile /\ preview = << >> /\ Len(error) > 0
  /\ error[1].row > 0
=============================================================================
